---- MODULE Spec2Model ----
(***************************************************************************)
(* StillWaters chat store (useChatStore) and the hosted database it talks  *)
(* to.  The store is a single mutable structure driven by the JavaScript   *)
(* event loop: every action below is one run-to-completion segment of an   *)
(* async function, i.e. the code between two awaits.  A database request   *)
(* is served by the database in one step and its response is received by   *)
(* the client in a later step, so requests in flight overlap freely.       *)
(*                                                                         *)
(* The Proxy (backend/index.js) is a process of its own: the rate limiter  *)
(* in front of POST /api/chat and the handler behind it.  Spec follows the *)
(* store with the Proxy's answers as inputs; ProxySpec follows the Proxy   *)
(* with its callers' requests as inputs.                                   *)
(***************************************************************************)
EXTENDS Integers, Sequences, FiniteSets, TLC

VARIABLES
    messages,         \* store: messages
    isLoading,        \* store: isLoading
    conversationId,   \* store: conversationId (NoId = null)
    conversations,    \* store: conversations
    user,             \* useUserStore.getState().user (NoUser = null)
    now,              \* Date.now()
    dbConversations,  \* table conversations, in created_at order
    dbMessages,       \* table messages, in created_at order
    dbNextId,         \* next conversation id the database hands out
    dbErrors,         \* database requests that have failed so far
    convInserts,      \* initConversation calls awaiting their insert
    msgInserts,       \* addMessage calls awaiting their message insert
    renames,          \* sendUserMessage calls awaiting the summary update
    loads,            \* loadConversation calls awaiting their select
    fetches,          \* fetchConversations calls awaiting their select
    deletes,          \* deleteConversation calls awaiting their delete
    sends,            \* one record per sendUserMessage call made so far
    ops,              \* store operations invoked so far
    budget,           \* store operations the caller makes at most
    lastCall,         \* the store operation invoked last
    apiKey,           \* proxy: process.env.GEMINI_API_KEY
    perCaller,        \* proxy: does the limiter's window start per caller?
    hits,             \* proxy: the limiter's counter of each caller
    resetIn,          \* proxy: ticks until each caller's counter is reset
    accepted,         \* proxy: requests let through, per caller and tick
    req               \* proxy: the request received last

chatVars == <<messages, isLoading, conversationId, conversations, user, now,
              dbConversations, dbMessages, dbNextId, dbErrors, convInserts,
              msgInserts, renames, loads, fetches, deletes, sends, ops,
              budget, lastCall>>

proxyVars == <<apiKey, perCaller, hits, resetIn, accepted, req>>

vars == <<chatVars, proxyVars>>

storeVars == <<messages, isLoading, conversationId, conversations>>
dbVars == <<dbConversations, dbMessages, dbNextId, dbErrors>>

----------------------------------------------------------------------------
(* Bounds of the model. *)

MaxOps == 2
MaxDbErrors == 1
MaxPending == 2
TicksPerWindow == 2
MaxExcess == 1
MaxNow == 2

(* Program constants. *)

TitleLimit == 30
max == 10

NoId == 0
NoUser == 0
Me == 1
Other == 2

----------------------------------------------------------------------------
(* Strings are sequences of one-character strings. *)

Blank == {" ", "\t", "\n"}

RECURSIVE TrimStart(_)
TrimStart(s) ==
    IF s = <<>> THEN s
    ELSE IF Head(s) \in Blank THEN TrimStart(Tail(s)) ELSE s

RECURSIVE TrimEnd(_)
TrimEnd(s) ==
    IF s = <<>> THEN s
    ELSE IF s[Len(s)] \in Blank THEN TrimEnd(SubSeq(s, 1, Len(s) - 1)) ELSE s

Trim(s) == TrimEnd(TrimStart(s))

Ellipsis == <<".", ".", ".">>

NewTitle(text) ==
    IF Len(text) > TitleLimit
    THEN SubSeq(text, 1, TitleLimit) \o Ellipsis
    ELSE text

Placeholder ==
    <<"N", "e", "w", " ", "C", "o", "n", "v", "e", "r", "s", "a", "t", "i", "o", "n">>

FallbackText ==
    <<"I'm having trouble connecting to the waters right now. Please try again later.">>

Undefined == <<"undefined">>

(* The texts a caller passes to sendUserMessage. *)
LongText == [i \in 1..(TitleLimit + 1) |-> IF i = 4 THEN " " ELSE "w"]

Texts == { <<>>, <<" ", "\t">>, <<" ", "h", "i", " ">>, LongText }

----------------------------------------------------------------------------
(* What the Proxy call of one send can come back with.  A body is what    *)
(* axios hands over on a 2xx status; the other kinds make axios throw.    *)

\* the first citation and primary_scripture name the same verse
Citation == [text |-> <<"t1">>, reference |-> <<"r1">>, translation |-> <<"NIV">>]
PrimaryScripture == Citation
NoScripture == [text |-> <<>>, reference |-> <<>>, translation |-> <<>>]

View1 == <<"v1">>

\* interp: "none" (interpretations missing or empty) or "view" (the first
\* interpretation carries a view); scriptures: the first interpretation's
\* list is non-empty; primary: primary_scripture is present.
Bodies ==
    [kind : {"body"}, interp : {"none", "view"},
     scriptures : BOOLEAN, primary : BOOLEAN]

Failures == [kind : {"network", "http429", "http500"}]

HasInterpretation(r) == r.kind = "body" /\ r.interp # "none"

ProxySucceeds(r) == HasInterpretation(r)

ViewOf(r) == IF r.interp = "view" THEN View1 ELSE Undefined

\* response.interpretations?.[0]?.scriptures?.length > 0, else primary_scripture
ScriptureOf(r) ==
    IF r.scriptures THEN Citation
    ELSE IF r.primary THEN PrimaryScripture
    ELSE NoScripture

VerseText(sc) ==
    <<"\"">> \o sc.text \o <<"\"", "\n", "\n", "-", " ">> \o sc.reference
        \o <<" ", "(">>
        \o sc.translation
        \o <<")">>

OutcomeOf(r) ==
    IF ~ProxySucceeds(r) THEN "failed"
    ELSE IF ScriptureOf(r) # NoScripture THEN "verse"
    ELSE "plain"

----------------------------------------------------------------------------
(* Messages. call/part say which sendUserMessage call built the message   *)
(* and which of its messages it is; they are bookkeeping, not store data. *)

Message(id, text, sender, data, call, part) ==
    [id |-> id, text |-> text, sender |-> sender, data |-> data,
     call |-> call, part |-> part]

\* the row addMessage inserts; the database adds id and created_at
Row(conv, msg) ==
    [conversation_id |-> conv, sender |-> msg.sender, text |-> msg.text,
     metadata |-> msg.data, call |-> msg.call, part |-> msg.part]

\* loadConversation's data.map; database ids are uuids, kept apart from the
\* clock-derived ids of the client by their sign
Formatted(row, pos) ==
    [id |-> 0 - pos, text |-> row.text, sender |-> row.sender,
     data |-> row.metadata, call |-> 0, part |-> "loaded"]

FormattedMessages(rows) == [i \in 1..Len(rows) |-> Formatted(rows[i], i)]

RECURSIVE SelectSeq2(_, _)
SelectSeq2(s, conv) ==
    IF s = <<>> THEN <<>>
    ELSE IF Head(s).conversation_id = conv
         THEN <<Head(s)>> \o SelectSeq2(Tail(s), conv)
         ELSE SelectSeq2(Tail(s), conv)

\* select * from messages where conversation_id = conv order by created_at
MessagesOf(conv) == SelectSeq2(dbMessages, conv)

----------------------------------------------------------------------------
(* The store as constructed, against a database that already holds one    *)
(* conversation of the signed-in user and one of another user.            *)

OldQuestion == <<"q">>
OldAnswer == <<"a">>
OldTitle == <<"o", "l", "d">>

InitConversations ==
    << [id |-> 1, user_id |-> Me, summary |-> OldTitle],
       [id |-> 2, user_id |-> Other, summary |-> Placeholder] >>

InitMessages ==
    << [conversation_id |-> 1, sender |-> "user", text |-> OldQuestion,
        metadata |-> "none", call |-> 0, part |-> "user"],
       [conversation_id |-> 1, sender |-> "bot", text |-> OldAnswer,
        metadata |-> "response", call |-> 0, part |-> "bot"] >>

ChatInit ==
    /\ messages = <<>>
    /\ isLoading = FALSE
    /\ conversationId = NoId
    /\ conversations = <<>>
    /\ user \in {NoUser, Me}
    /\ now = 0
    /\ dbConversations = InitConversations
    /\ dbMessages = InitMessages
    /\ dbNextId = Len(InitConversations) + 1
    /\ dbErrors = 0
    /\ convInserts = {}
    /\ msgInserts = {}
    /\ renames = {}
    /\ loads = {}
    /\ fetches = {}
    /\ deletes = {}
    /\ sends = <<>>
    /\ ops = 0
    /\ budget = MaxOps
    /\ lastCall = [op |-> "none", arg |-> NoId, result |-> "none"]

----------------------------------------------------------------------------
(* The Proxy as started.  Time is counted in ticks, TicksPerWindow of them *)
(* to one windowMs; requests fall on ticks.                                *)

Callers == {1, 2}

\* GEMINI_API_KEY: not set, the placeholder of the template, or a key
ApiKeys == {"absent", "placeholder", "set"}

NoBody == [empty |-> TRUE]
NoOutcome == [kind |-> "none"]

\* no request received yet
NoRequest ==
    [caller |-> 0, phase |-> "none", path |-> "none", status |-> 0,
     body |-> NoBody, upstream |-> NoOutcome, upstreamCalls |-> 0,
     responses |-> 0, handlerRuns |-> 0]

\* express-rate-limit counts in fixed windows of windowMs.  Its memory store
\* starts the window either with the store (every counter is reset together
\* each windowMs) or with the caller's first request after the last reset,
\* depending on the installed version, which the repository does not pin.
ProxyAtStart(key, mode) ==
    /\ apiKey = key
    /\ perCaller = mode
    /\ hits = [c \in Callers |-> 0]
    /\ resetIn = [c \in Callers |-> IF mode THEN 0 ELSE TicksPerWindow]
    /\ accepted = [c \in Callers |-> [k \in 1..TicksPerWindow |-> 0]]
    /\ req = NoRequest

\* the store under study; the Proxy's own state plays no part in Spec
Init == ChatInit /\ ProxyAtStart("set", TRUE)

----------------------------------------------------------------------------
(* One run-to-completion segment threads a record st through the calls it *)
(* makes, in the order the code makes them: the store fields it writes    *)
(* and the inserts it has issued so far.  appended and loadingSet say     *)
(* whether the sendUserMessage call the segment belongs to has already    *)
(* appended its user message and set isLoading; every request remembers   *)
(* both as of the moment it is issued.                                    *)

Segment(appended, loadingSet) ==
    [messages |-> messages, isLoading |-> isLoading,
     convInserts |-> convInserts, msgInserts |-> msgInserts,
     appended |-> appended, loadingSet |-> loadingSet]

Commit(st) ==
    /\ messages' = st.messages
    /\ isLoading' = st.isLoading
    /\ convInserts' = st.convInserts
    /\ msgInserts' = st.msgInserts

\* initConversation up to its await: the conversation insert is issued
InitConversation(st, msg) ==
    IF user = NoUser THEN st
    ELSE [st EXCEPT !.convInserts = @ \cup
            {[call |-> msg.call, part |-> msg.part, msg |-> msg,
              user_id |-> user, phase |-> "sent", id |-> NoId,
              afterAppend |-> st.appended, afterLoading |-> st.loadingSet]}]

\* supabase.from('messages').insert(...)
InsertMessage(st, chatId, msg) ==
    [st EXCEPT !.msgInserts = @ \cup
        {[call |-> msg.call, part |-> msg.part, row |-> Row(chatId, msg),
          afterAppend |-> st.appended, afterLoading |-> st.loadingSet]}]

\* the message put in front of the list instead of behind it
PrependMessage(st, msg) ==
    [st EXCEPT !.messages = <<msg>> \o @,
               !.appended = @ \/ msg.part = "user"]

\* a list that only grows while a user is signed in
AppendMessageSignedIn(st, msg) ==
    IF user = NoUser THEN [st EXCEPT !.appended = @ \/ msg.part = "user"]
    ELSE [st EXCEPT !.messages = Append(@, msg),
                    !.appended = @ \/ msg.part = "user"]

\* set((state) => ({ messages: [...state.messages, message] }))
AppendMessage(st, msg) ==
    [st EXCEPT !.messages = Append(@, msg),
               !.appended = @ \/ msg.part = "user"]

\* an addMessage that creates a conversation for every message
AddMessageEager(st, msg) == InitConversation(AppendMessage(st, msg), msg)

\* addMessage up to its first await
AddMessage(st, msg) ==
    LET st1 == AppendMessage(st, msg) IN
    IF user = NoUser THEN st1
    ELSE IF conversationId = NoId THEN InitConversation(st1, msg)
    ELSE InsertMessage(st1, conversationId, msg)

\* set({ isLoading: loading })
SetLoading(st, loading) ==
    [st EXCEPT !.isLoading = loading, !.loadingSet = @ \/ loading]

\* a store operation is invoked
Invoke(name, arg) ==
    /\ ops < budget
    /\ ops' = ops + 1
    /\ lastCall' = [op |-> name, arg |-> arg, result |-> "pending"]

\* the request of operation q has come back: if q is the operation invoked
\* last, how it ended is remembered
Settle(q) ==
    lastCall' = IF q.op = ops THEN [lastCall EXCEPT !.result = q.phase]
                ELSE lastCall

\* The model follows at most MaxPending fire-and-forget inserts in flight at
\* once: a segment that would issue more is taken only after earlier inserts
\* have been served.
Fits(st) == Cardinality(st.convInserts) + Cardinality(st.msgInserts) <= MaxPending

\* Is any store operation still running?
Running ==
    \/ \E t \in 1..Len(sends) : sends[t].pc # "done"
    \/ loads # {} \/ fetches # {} \/ deletes # {}

\* the bookkeeping of a call is dropped once the call has returned and
\* another operation starts
Retired == [text |-> <<>>, pc |-> "done", outcome |-> "none", startLen |-> 0,
            alone |-> FALSE, proxyCalls |-> 0, callAfterAppend |-> FALSE,
            callAfterLoading |-> FALSE]

\* another store operation starts: no call made so far is alone any more
Interleave(ss) ==
    [t \in 1..Len(ss) |->
        IF ss[t].pc = "done" THEN Retired
        ELSE [ss[t] EXCEPT !.alone = FALSE, !.startLen = 0]]

----------------------------------------------------------------------------
(* sendUserMessage(text), up to the await of the Proxy call. *)

\* the guard without the trim
IsNoOpUntrimmed(text) == text = <<>>

\* if (!text.trim()) return;
IsNoOp(text) == Trim(text) = <<>>

SendUserMessage(text) ==
    /\ Invoke("sendUserMessage", NoId)
    /\ LET s == Len(sends) + 1
           userMessage == Message(now, Trim(text), "user", "none", s, "user")
           st1 == AddMessage(Segment(FALSE, FALSE), userMessage)
           st2 == SetLoading(st1, TRUE)
           returned == [text |-> text, pc |-> "done", outcome |-> "none",
                        startLen |-> Len(messages), alone |-> ~Running,
                        proxyCalls |-> 0, callAfterAppend |-> FALSE,
                        callAfterLoading |-> FALSE]
           \* sendMessage(userMessage.text): the POST is on its way
           calling == [returned EXCEPT !.pc = "awaitProxy", !.proxyCalls = 1,
                        !.callAfterAppend = st2.appended,
                        !.callAfterLoading = st2.loadingSet]
       IN  IF IsNoOp(text)
           THEN /\ sends' = Append(Interleave(sends), returned)
                /\ UNCHANGED <<messages, isLoading, convInserts, msgInserts>>
           ELSE /\ Fits(st2)
                /\ sends' = Append(Interleave(sends), calling)
                /\ Commit(st2)
    /\ UNCHANGED <<proxyVars, budget, conversationId, conversations, user, now, dbVars,
                   renames, loads, fetches, deletes>>

----------------------------------------------------------------------------
(* The conversations list can hold empty slots after an assignment past   *)
(* its end; findIndex visits them as undefined and c.id then throws.      *)

Hole == [id |-> NoId, user_id |-> NoUser, summary |-> Undefined]

Throws == 0 - 1
NotFound == 0

RECURSIVE FindIndexFrom(_, _, _)
FindIndexFrom(cs, id, i) ==
    IF i > Len(cs) THEN NotFound
    ELSE IF cs[i] = Hole THEN Throws
    ELSE IF cs[i].id = id THEN i
    ELSE FindIndexFrom(cs, id, i + 1)

\* get().conversations.findIndex(c => c.id === id), 1-based
FindIndex(cs, id) == FindIndexFrom(cs, id, 1)

\* updatedConversations[index] = value
SetAt(cs, idx, v) ==
    IF idx <= Len(cs) THEN [cs EXCEPT ![idx] = v]
    ELSE cs \o [k \in 1..(idx - Len(cs) - 1) |-> Hole] \o <<v>>

----------------------------------------------------------------------------
(* The Proxy call of send s returns r: the rest of sendUserMessage up to  *)
(* the await of the summary update, or to its end.                        *)

BotMessage(s, r) == Message(now + 1, ViewOf(r), "bot", "response", s, "bot")

VerseMessage(s, r) ==
    Message(now + 2, VerseText(ScriptureOf(r)), "bot", "isVerse", s, "verse")

ErrorMessage(s) == Message(now + 1, FallbackText, "bot", "none", s, "error")

\* the try block without its step 5
AddBotMessagesNoVerse(st, s, r) == AddMessage(st, BotMessage(s, r))

\* a try block that drops the response once the user has moved on
AddBotMessagesDiscarding(st, s, r) ==
    IF lastCall.op \in {"loadConversation", "clearMessages"} THEN st
    ELSE LET st1 == AddMessage(st, BotMessage(s, r)) IN
         IF ScriptureOf(r) # NoScripture THEN AddMessage(st1, VerseMessage(s, r))
         ELSE st1

\* steps 3 to 5 of the try block
AddBotMessages(st, s, r) ==
    LET st1 == AddMessage(st, BotMessage(s, r)) IN
    IF ScriptureOf(r) # NoScripture THEN AddMessage(st1, VerseMessage(s, r))
    ELSE st1

\* step 6: does the title need generating, and for which list entry
TitleIndex ==
    IF conversationId = NoId THEN NotFound
    ELSE FindIndex(conversations, conversationId)

NeedsTitle ==
    /\ TitleIndex > 0
    /\ conversations[TitleIndex].summary = Placeholder

\* a catch block that swallows the error without a message
CatchSilently(st, s) == st

\* catch (error) { ... get().addMessage(errorMessage) }
Catch(st, s) == AddMessage(st, ErrorMessage(s))

\* finally { set({ isLoading: false }) }
Finally(st) == SetLoading(st, FALSE)

ProxyReturn(s, r) ==
    /\ s \in 1..Len(sends)
    /\ sends[s].pc = "awaitProxy"
    /\ LET ok == ProxySucceeds(r)
           st0 == Segment(TRUE, TRUE)
           st1 == IF ok THEN AddBotMessages(st0, s, r) ELSE st0
           thrown == ~ok \/ TitleIndex = Throws
           awaits == ~thrown /\ NeedsTitle
           st2 == IF thrown THEN Catch(st1, s) ELSE st1
           st3 == IF awaits THEN st2 ELSE Finally(st2)
       IN  /\ Fits(st3)
           /\ Commit(st3)
           /\ sends' = [sends EXCEPT ![s].outcome = OutcomeOf(r),
                            ![s].pc = IF awaits THEN "awaitRename" ELSE "done"]
           /\ renames' = IF awaits
                THEN renames \cup
                       {[call |-> s, conv |-> conversationId,
                         title |-> NewTitle(sends[s].text),
                         index |-> TitleIndex,
                         conversation |-> conversations[TitleIndex],
                         phase |-> "sent"]}
                ELSE renames
    /\ UNCHANGED <<proxyVars, budget, conversationId, conversations, user, now, dbVars,
                   loads, fetches, deletes, ops, lastCall>>

\* A request the database serves either succeeds or fails; the model follows
\* at most MaxDbErrors failures.
Failing(ok) ==
    IF ok THEN dbErrors' = dbErrors
    ELSE dbErrors < MaxDbErrors /\ dbErrors' = dbErrors + 1

\* the database serves supabase.from('conversations').update(...).eq('id', ..)
ServeRename(q, ok) ==
    /\ q \in renames
    /\ q.phase = "sent"
    /\ Failing(ok)
    /\ renames' = (renames \ {q}) \cup {[q EXCEPT !.phase = "served"]}
    /\ dbConversations' =
         IF ok
         THEN [i \in 1..Len(dbConversations) |->
                 IF dbConversations[i].id = q.conv
                 THEN [dbConversations[i] EXCEPT !.summary = q.title]
                 ELSE dbConversations[i]]
         ELSE dbConversations
    /\ UNCHANGED <<proxyVars, budget, storeVars, user, now, dbMessages, dbNextId, convInserts,
                   msgInserts, loads, fetches, deletes, sends, ops, lastCall>>

\* the await of the update returns: the local list is patched, then finally
RecvRename(q) ==
    /\ q \in renames
    /\ q.phase = "served"
    /\ renames' = renames \ {q}
    /\ conversations' =
         SetAt(conversations, q.index, [q.conversation EXCEPT !.summary = q.title])
    /\ isLoading' = FALSE
    /\ sends' = [sends EXCEPT ![q.call].pc = "done"]
    /\ UNCHANGED <<proxyVars, budget, messages, conversationId, user, now, dbVars, convInserts,
                   msgInserts, loads, fetches, deletes, ops, lastCall>>

----------------------------------------------------------------------------
(* The database serves the inserts of addMessage / initConversation. *)

ServeInsertConversation(q, ok) ==
    /\ q \in convInserts
    /\ q.phase = "sent"
    /\ Failing(ok)
    /\ IF ok
       THEN /\ dbConversations' = Append(dbConversations,
                    [id |-> dbNextId, user_id |-> q.user_id,
                     summary |-> Placeholder])
            /\ dbNextId' = dbNextId + 1
            /\ convInserts' = (convInserts \ {q}) \cup
                    {[q EXCEPT !.phase = "ok", !.id = dbNextId]}
       ELSE /\ convInserts' = (convInserts \ {q}) \cup {[q EXCEPT !.phase = "err"]}
            /\ UNCHANGED <<dbConversations, dbNextId>>
    /\ UNCHANGED <<proxyVars, budget, storeVars, user, now, dbMessages, msgInserts, renames,
                   loads, fetches, deletes, sends, ops, lastCall>>

\* an initConversation that sends its insert again when it has failed
RecvInsertConversationRetrying(q) ==
    /\ q \in convInserts
    /\ q.phase # "sent"
    /\ IF q.phase = "ok"
       THEN /\ conversationId' = q.id
            /\ conversations' =
                 <<[id |-> q.id, user_id |-> q.user_id, summary |-> Placeholder]>>
                     \o conversations
            /\ LET st0 == Segment(q.afterAppend, TRUE)
                   st1 == InsertMessage([st0 EXCEPT !.convInserts = @ \ {q}],
                                        q.id, q.msg)
               IN  /\ convInserts' = st1.convInserts
                   /\ msgInserts' = st1.msgInserts
       ELSE /\ convInserts' = (convInserts \ {q}) \cup {[q EXCEPT !.phase = "sent"]}
            /\ UNCHANGED <<conversationId, conversations, msgInserts>>
    /\ UNCHANGED <<proxyVars, budget, messages, isLoading, user, now, dbVars, renames,
                   loads, fetches, deletes, sends, ops, lastCall>>

\* initConversation resumes, then the addMessage that awaited it
RecvInsertConversation(q) ==
    /\ q \in convInserts
    /\ q.phase # "sent"
    /\ IF q.phase = "ok"
       THEN /\ conversationId' = q.id
            /\ conversations' =
                 <<[id |-> q.id, user_id |-> q.user_id, summary |-> Placeholder]>>
                     \o conversations
            /\ LET st0 == Segment(q.afterAppend, TRUE)
                   st1 == InsertMessage([st0 EXCEPT !.convInserts = @ \ {q}],
                                        q.id, q.msg)
               IN  /\ convInserts' = st1.convInserts
                   /\ msgInserts' = st1.msgInserts
       ELSE /\ convInserts' = convInserts \ {q}
            /\ UNCHANGED <<conversationId, conversations, msgInserts>>
    /\ UNCHANGED <<proxyVars, budget, messages, isLoading, user, now, dbVars, renames,
                   loads, fetches, deletes, sends, ops, lastCall>>

\* the database serves supabase.from('messages').insert(...)
ServeInsertMessage(q, ok) ==
    /\ q \in msgInserts
    /\ Failing(ok)
    /\ msgInserts' = msgInserts \ {q}
    /\ dbMessages' = IF ok THEN Append(dbMessages, q.row) ELSE dbMessages
    /\ UNCHANGED <<proxyVars, budget, storeVars, user, now, dbConversations, dbNextId, convInserts,
                   renames, loads, fetches, deletes, sends, ops, lastCall>>

----------------------------------------------------------------------------
(* loadConversation, fetchConversations, deleteConversation, clearMessages *)

\* the conversation ids a caller can name: rows of the table, entries of the
\* local list, the active conversation
KnownIds ==
    ({dbConversations[i].id : i \in 1..Len(dbConversations)}
        \cup {conversations[i].id : i \in 1..Len(conversations)}
        \cup {conversationId}) \ {NoId}

\* loadConversation(id) up to the await of the select
LoadConversation(id) ==
    /\ Invoke("loadConversation", id)
    /\ isLoading' = TRUE
    /\ conversationId' = id
    /\ messages' = <<>>
    /\ loads' = loads \cup {[op |-> ops + 1, conv |-> id, phase |-> "sent",
                             rows |-> <<>>]}
    /\ sends' = Interleave(sends)
    /\ UNCHANGED <<proxyVars, budget, conversations, user, now, dbVars, convInserts, msgInserts,
                   renames, fetches, deletes>>

\* the database serves the select on messages
ServeLoad(q, ok) ==
    /\ q \in loads
    /\ q.phase = "sent"
    /\ Failing(ok)
    /\ loads' = (loads \ {q}) \cup
         {IF ok THEN [q EXCEPT !.phase = "ok", !.rows = MessagesOf(q.conv)]
                ELSE [q EXCEPT !.phase = "err"]}
    /\ UNCHANGED <<proxyVars, budget, storeVars, user, now, dbConversations, dbMessages, dbNextId,
                   convInserts, msgInserts, renames, fetches, deletes, sends, ops, lastCall>>

\* the await of the select returns: the rest of loadConversation
RecvLoad(q) ==
    /\ q \in loads
    /\ q.phase # "sent"
    /\ loads' = loads \ {q}
    /\ messages' = IF q.phase = "ok" THEN FormattedMessages(q.rows) ELSE messages
    /\ isLoading' = FALSE
    /\ Settle(q)
    /\ UNCHANGED <<proxyVars, budget, conversationId, conversations, user, now, dbVars, convInserts,
                   msgInserts, renames, fetches, deletes, sends, ops>>

\* fetchConversations up to the await of the select; without a user it
\* returns from the try block and only the finally clause runs
FetchConversations ==
    /\ Invoke("fetchConversations", NoId)
    /\ IF user = NoUser
       THEN isLoading' = FALSE /\ fetches' = fetches
       ELSE /\ isLoading' = TRUE
            /\ fetches' = fetches \cup {[op |-> ops + 1, user_id |-> user,
                                         phase |-> "sent", rows |-> <<>>]}
    /\ sends' = Interleave(sends)
    /\ UNCHANGED <<proxyVars, budget, messages, conversationId, conversations, user, now, dbVars,
                   convInserts, msgInserts, renames, loads, deletes>>

RECURSIVE OwnedNewestFirst(_, _)
OwnedNewestFirst(rows, u) ==
    IF rows = <<>> THEN <<>>
    ELSE OwnedNewestFirst(Tail(rows), u)
            \o (IF Head(rows).user_id = u THEN <<Head(rows)>> ELSE <<>>)

\* the database serves .eq('user_id', user.id).order('created_at', desc)
ServeFetch(q, ok) ==
    /\ q \in fetches
    /\ q.phase = "sent"
    /\ Failing(ok)
    /\ fetches' = (fetches \ {q}) \cup
         {IF ok THEN [q EXCEPT !.phase = "ok",
                               !.rows = OwnedNewestFirst(dbConversations, q.user_id)]
                ELSE [q EXCEPT !.phase = "err"]}
    /\ UNCHANGED <<proxyVars, budget, storeVars, user, now, dbConversations, dbMessages, dbNextId,
                   convInserts, msgInserts, renames, loads, deletes, sends, ops, lastCall>>

\* the await of the select returns: the rest of fetchConversations
RecvFetch(q) ==
    /\ q \in fetches
    /\ q.phase # "sent"
    /\ fetches' = fetches \ {q}
    /\ conversations' = IF q.phase = "ok" THEN q.rows ELSE conversations
    /\ isLoading' = FALSE
    /\ Settle(q)
    /\ UNCHANGED <<proxyVars, budget, messages, conversationId, user, now, dbVars, convInserts,
                   msgInserts, renames, loads, deletes, sends, ops>>

\* deleteConversation(id) up to the await of the delete
DeleteConversation(id) ==
    /\ Invoke("deleteConversation", id)
    /\ deletes' = deletes \cup {[op |-> ops + 1, conv |-> id, phase |-> "sent"]}
    /\ sends' = Interleave(sends)
    /\ UNCHANGED <<proxyVars, budget, storeVars, user, now, dbVars, convInserts, msgInserts,
                   renames, loads, fetches>>

RECURSIVE Without(_, _)
Without(rows, id) ==
    IF rows = <<>> THEN <<>>
    ELSE (IF Head(rows).id = id THEN <<>> ELSE <<Head(rows)>>)
            \o Without(Tail(rows), id)

RECURSIVE WithoutMessagesOf(_, _)
WithoutMessagesOf(rows, id) ==
    IF rows = <<>> THEN <<>>
    ELSE (IF Head(rows).conversation_id = id THEN <<>> ELSE <<Head(rows)>>)
            \o WithoutMessagesOf(Tail(rows), id)

\* the database serves .delete().eq('id', id); the schema of the messages
\* table is not part of the repository, so the rows of the conversation are
\* either removed with it (cascade) or left behind
ServeDelete(q, ok, cascade) ==
    /\ q \in deletes
    /\ q.phase = "sent"
    /\ Failing(ok)
    /\ deletes' = (deletes \ {q}) \cup
         {[q EXCEPT !.phase = IF ok THEN "ok" ELSE "err"]}
    /\ dbConversations' = IF ok THEN Without(dbConversations, q.conv)
                          ELSE dbConversations
    /\ dbMessages' = IF ok /\ cascade THEN WithoutMessagesOf(dbMessages, q.conv)
                     ELSE dbMessages
    /\ UNCHANGED <<proxyVars, budget, storeVars, user, now, dbNextId, convInserts, msgInserts,
                   renames, loads, fetches, sends, ops, lastCall>>

\* a filter that keeps every entry
Unfiltered(cs, id) == cs

\* state.conversations.filter(c => c.id !== id); filter skips empty slots
Filtered(cs, id) == Without(Without(cs, NoId), id)

\* the await of the delete returns: the rest of deleteConversation
RecvDelete(q) ==
    /\ q \in deletes
    /\ q.phase # "sent"
    /\ deletes' = deletes \ {q}
    /\ IF q.phase = "ok"
       THEN /\ conversations' = Filtered(conversations, q.conv)
            /\ messages' = IF conversationId = q.conv THEN <<>> ELSE messages
            /\ conversationId' =
                 IF conversationId = q.conv THEN NoId ELSE conversationId
       ELSE UNCHANGED <<conversations, messages, conversationId>>
    /\ Settle(q)
    /\ UNCHANGED <<proxyVars, budget, isLoading, user, now, dbVars, convInserts, msgInserts,
                   renames, loads, fetches, sends, ops>>

\* a clearMessages that forgets the conversation id
ClearMessagesOnly ==
    /\ Invoke("clearMessages", NoId)
    /\ messages' = <<>>
    /\ sends' = Interleave(sends)
    /\ UNCHANGED <<proxyVars, budget, isLoading, conversationId, conversations, user, now, dbVars,
                   convInserts, msgInserts, renames, loads, fetches, deletes>>

\* clearMessages()
ClearMessages ==
    /\ Invoke("clearMessages", NoId)
    /\ messages' = <<>>
    /\ conversationId' = NoId
    /\ sends' = Interleave(sends)
    /\ UNCHANGED <<proxyVars, budget, isLoading, conversations, user, now, dbVars, convInserts,
                   msgInserts, renames, loads, fetches, deletes>>

----------------------------------------------------------------------------
Responses == Bodies \cup Failures

\* every step of the store and the database, for the given inputs
NextOn(texts, responses) ==
    \/ \E text \in texts : SendUserMessage(text)
    \/ \E s \in 1..budget, r \in responses : ProxyReturn(s, r)
    \/ \E q \in renames, ok \in BOOLEAN : ServeRename(q, ok)
    \/ \E q \in renames : RecvRename(q)
    \/ \E q \in convInserts, ok \in BOOLEAN : ServeInsertConversation(q, ok)
    \/ \E q \in convInserts : RecvInsertConversation(q)
    \/ \E q \in msgInserts, ok \in BOOLEAN : ServeInsertMessage(q, ok)
    \/ \E id \in KnownIds : LoadConversation(id)
    \/ \E q \in loads, ok \in BOOLEAN : ServeLoad(q, ok)
    \/ \E q \in loads : RecvLoad(q)
    \/ FetchConversations
    \/ \E q \in fetches, ok \in BOOLEAN : ServeFetch(q, ok)
    \/ \E q \in fetches : RecvFetch(q)
    \/ \E id \in KnownIds : DeleteConversation(id)
    \/ \E q \in deletes, ok \in BOOLEAN, cascade \in BOOLEAN : ServeDelete(q, ok, cascade)
    \/ \E q \in deletes : RecvDelete(q)
    \/ ClearMessages

Next == NextOn(Texts, Responses)

Spec == Init /\ [][Next]_vars

\* The event loop runs the continuation of every response that has arrived.
\* Whether and when the Proxy or the database answers is not up to the store:
\* nothing is assumed of them.  Progress does not depend on what is said, so
\* one text of each kind and one response of each kind stand for the rest.
FairTexts == { <<" ", "\t">>, <<" ", "h", "i", " ">> }

FairResponses ==
    { [kind |-> "body", interp |-> "view", scriptures |-> TRUE, primary |-> FALSE],
      [kind |-> "network"] }

FairSpec ==
    /\ Init
    /\ [][NextOn(FairTexts, FairResponses)]_vars
    /\ WF_vars(\E q \in renames : RecvRename(q))
    /\ WF_vars(\E q \in convInserts : RecvInsertConversation(q))
    /\ WF_vars(\E q \in loads : RecvLoad(q))
    /\ WF_vars(\E q \in fetches : RecvFetch(q))
    /\ WF_vars(\E q \in deletes : RecvDelete(q))

\* Date.now() read a millisecond later
Elapse ==
    /\ now < MaxNow
    /\ now' = now + 1
    /\ UNCHANGED <<proxyVars, budget, storeVars, user, dbVars, convInserts, msgInserts,
                   renames, loads, fetches, deletes, sends, ops, lastCall>>

\* A caller who owns no conversation yet and makes five calls: the list is
\* fetched, a question is sent, the list is fetched again, and two more
\* questions are sent.  Every answer of the Proxy carries a view and no
\* scripture, and no database request fails.
PlanCalls ==
    <<"fetchConversations", "sendUserMessage", "fetchConversations",
      "sendUserMessage", "sendUserMessage">>

PlanText == <<"h", "i">>

PlanResponse == [kind |-> "body", interp |-> "view", scriptures |-> FALSE, primary |-> FALSE]

PlanInit ==
    /\ messages = <<>>
    /\ isLoading = FALSE
    /\ conversationId = NoId
    /\ conversations = <<>>
    /\ user = Me
    /\ now = 0
    /\ dbConversations = <<InitConversations[2]>>
    /\ dbMessages = <<>>
    /\ dbNextId = Len(InitConversations) + 1
    /\ dbErrors = 0
    /\ convInserts = {}
    /\ msgInserts = {}
    /\ renames = {}
    /\ loads = {}
    /\ fetches = {}
    /\ deletes = {}
    /\ sends = <<>>
    /\ ops = 0
    /\ budget = Len(PlanCalls)
    /\ lastCall = [op |-> "none", arg |-> NoId, result |-> "none"]
    /\ ProxyAtStart("set", TRUE)

\* the next call of the plan, made when no send is running
Planned(name) ==
    /\ ops < Len(PlanCalls)
    /\ PlanCalls[ops + 1] = name
    /\ \A t \in 1..Len(sends) : sends[t].pc = "done"

PlanNext ==
    \/ Planned("sendUserMessage") /\ SendUserMessage(PlanText)
    \/ \E s \in 1..budget : ProxyReturn(s, PlanResponse)
    \/ \E q \in renames : ServeRename(q, TRUE)
    \/ \E q \in renames : RecvRename(q)
    \/ \E q \in convInserts : ServeInsertConversation(q, TRUE)
    \/ \E q \in convInserts : RecvInsertConversation(q)
    \/ \E q \in msgInserts : ServeInsertMessage(q, TRUE)
    \/ Planned("fetchConversations") /\ FetchConversations
    \/ \E q \in fetches : ServeFetch(q, TRUE)
    \/ \E q \in fetches : RecvFetch(q)

PlanSpec == PlanInit /\ [][PlanNext]_vars

\* the store with the clock running between its steps
ClockSpec == Init /\ [][NextOn(FairTexts, FairResponses) \/ Elapse]_vars

----------------------------------------------------------------------------
(* The Proxy: POST /api/chat behind chatLimiter.                           *)

LimitBody == [error |-> "Too many requests from this IP, please try again after an hour"]

ErrorBody == [error |-> "Failed to fetch wisdom from the waters."]

\* the body of the mock path
MockBody ==
    [question |-> "question",
     primary_scripture |->
        [reference |-> "Psalm 23:2",
         text |-> "He makes me lie down in green pastures, he leads me beside quiet waters.",
         translation |-> "NIV"],
     interpretations |->
        << [tradition |-> "General",
            view |-> "This verse speaks to the peace and restoration that God provides."] >>,
     context |-> "David, the shepherd king, writes this psalm.",
     application |-> "Take a moment today to pause.",
     related_verses |-> <<"Philippians 4:7", "Matthew 11:28">>]

\* the object the prompt asks the model for
PromptShaped ==
    [question |-> "question",
     primary_scripture |->
        [reference |-> "Book Chapter:Verse", text |-> "Full text of the verse",
         translation |-> "NIV or ESV"],
     interpretations |->
        << [tradition |-> "General/Historical/Theological",
            view |-> "A concise explanation of the meaning."] >>,
     context |-> "Brief historical or literary context.",
     application |-> "A practical application for the user's life.",
     related_verses |-> <<"Book Chapter:Verse", "Book Chapter:Verse">>]

\* The text the model returns is a sequence of pieces: code-fence markers,
\* white space, prose, and the text of one JSON value.
FenceJson == [tok |-> "fence json"]
Fence == [tok |-> "fence"]
Space == [tok |-> " "]
Prose == [tok |-> "prose"]
Json(v) == [tok |-> "json", value |-> v]

UpstreamTexts ==
    { <<Json(PromptShaped)>>,
      <<FenceJson, Space, Json(PromptShaped), Space, Fence>>,
      <<Prose, Space, Json(PromptShaped)>>,
      <<>> }

\* generateContent rejects, response.text() throws, or a text comes back
Outcomes ==
    {[kind |-> "rejects"], [kind |-> "blocked"]}
        \cup {[kind |-> "text", text |-> t] : t \in UpstreamTexts}

\* text.replace(...) twice: every opening and closing fence marker goes
StripFences(text) == SelectSeq(text, LAMBDA t : t \notin {FenceJson, Fence})

\* .trim()
TrimText(text) ==
    LET keep == {i \in 1..Len(text) : text[i] # Space} IN
    IF keep = {} THEN <<>>
    ELSE SubSeq(text, CHOOSE i \in keep : \A j \in keep : i <= j,
                      CHOOSE i \in keep : \A j \in keep : i >= j)

CleanJson(text) == TrimText(StripFences(text))

\* JSON.parse(cleanJson) returns instead of throwing
Parses(clean) == Len(clean) = 1 /\ clean[1].tok = "json"

Parsed(clean) == clean[1].value

\* the try block of the live path runs through
UpstreamUsable(o) == o.kind = "text" /\ Parses(CleanJson(o.text))

\* a limiter that lets one request too many through
OverLimitLate(n) == n > max + 1

\* totalHits > max
OverLimit(n) == n > max

\* chatLimiter answers itself: 429 with its message, next() is not called
Rejected(c) ==
    [NoRequest EXCEPT !.caller = c, !.phase = "done", !.path = "limited",
                      !.status = 429, !.body = LimitBody, !.responses = 1]

\* the handler up to its timer (mock path) or its first await (live path)
Handle(c) ==
    IF apiKey \in {"absent", "placeholder"}
    THEN [NoRequest EXCEPT !.caller = c, !.phase = "mockTimer", !.path = "mock",
                           !.handlerRuns = 1]
    ELSE [NoRequest EXCEPT !.caller = c, !.phase = "upstream", !.path = "live",
                           !.handlerRuns = 1, !.upstreamCalls = 1]

\* a request of caller c arrives; the Proxy is followed one request at a
\* time, and past the limit for MaxExcess requests per window
Arrive(c) ==
    /\ req.phase \in {"none", "done"}
    /\ hits[c] < max + MaxExcess
    /\ LET n == hits[c] + 1 IN
       /\ hits' = [hits EXCEPT ![c] = n]
       /\ resetIn' = [resetIn EXCEPT ![c] = IF @ = 0 THEN TicksPerWindow ELSE @]
       /\ IF OverLimit(n)
          THEN req' = Rejected(c) /\ accepted' = accepted
          ELSE /\ req' = Handle(c)
               /\ accepted' = [accepted EXCEPT ![c][TicksPerWindow] = @ + 1]
    /\ UNCHANGED <<chatVars, apiKey, perCaller>>

\* one tick passes: a window that has run its windowMs ends, and with it the
\* count of its caller
Tick ==
    /\ accepted' = [c \in Callers |-> Tail(accepted[c]) \o <<0>>]
    /\ hits' = [c \in Callers |-> IF resetIn[c] = 1 THEN 0 ELSE hits[c]]
    /\ resetIn' = [c \in Callers |->
                     IF resetIn[c] = 0 THEN 0
                     ELSE IF resetIn[c] > 1 THEN resetIn[c] - 1
                     ELSE IF perCaller THEN 0 ELSE TicksPerWindow]
    /\ UNCHANGED <<chatVars, apiKey, perCaller, req>>

\* setTimeout(() => res.json({...}), 1500) fires
MockTimer ==
    /\ req.phase = "mockTimer"
    /\ req' = [req EXCEPT !.phase = "done", !.status = 200, !.body = MockBody,
                          !.responses = @ + 1]
    /\ UNCHANGED <<chatVars, apiKey, perCaller, hits, resetIn, accepted>>

\* a catch block that sends what it has of the model's text
CatchLeaking(r, o) ==
    [r EXCEPT !.phase = "done", !.status = 500, !.responses = @ + 1,
              !.body = IF o.kind = "text" /\ o.text # <<>>
                       THEN [error |-> o.text] ELSE ErrorBody]

\* catch (error) { res.status(500).json({ error: ... }) }
CatchUpstream(r, o) ==
    [r EXCEPT !.phase = "done", !.status = 500, !.body = ErrorBody,
              !.responses = @ + 1]

\* the await of generateContent returns: the rest of the live path
UpstreamReturn(o) ==
    /\ req.phase = "upstream"
    /\ LET r == [req EXCEPT !.upstream = o] IN
       req' = IF UpstreamUsable(o)
              THEN [r EXCEPT !.phase = "done", !.status = 200,
                             !.body = Parsed(CleanJson(o.text)),
                             !.responses = @ + 1]
              ELSE CatchUpstream(r, o)
    /\ UNCHANGED <<chatVars, apiKey, perCaller, hits, resetIn, accepted>>

ProxyInit ==
    /\ ChatInit
    /\ user = NoUser
    /\ \E key \in ApiKeys, mode \in BOOLEAN : ProxyAtStart(key, mode)

ProxyNext ==
    \/ \E c \in Callers : Arrive(c)
    \/ Tick
    \/ MockTimer
    \/ \E o \in Outcomes : UpstreamReturn(o)

ProxySpec == ProxyInit /\ [][ProxyNext]_vars

----------------------------------------------------------------------------
(* Vocabulary of the properties. *)

Calls == 1..Len(sends)

BlankTexts == {t \in Texts : \A i \in 1..Len(t) : t[i] \in Blank}

\* the positions of the messages call s has put in the session list
Positions(s, parts) ==
    {i \in 1..Len(messages) : messages[i].call = s /\ messages[i].part \in parts}

\* call s has returned, nothing else ran while it did and nothing started since
RanAlone(s) == sends[s].pc = "done" /\ sends[s].alone

----------------------------------------------------------------------------
C2_BlankSendIsNoOp ==
    [][ (/\ Len(sends') = Len(sends) + 1
         /\ sends'[Len(sends')].text \in BlankTexts)
        => /\ UNCHANGED <<messages, isLoading, conversationId, conversations>>
           /\ UNCHANGED <<convInserts, msgInserts, renames, loads, fetches, deletes>>
           /\ UNCHANGED <<dbConversations, dbMessages>>
           /\ sends'[Len(sends')].proxyCalls = 0
           /\ sends'[Len(sends')].pc = "done" ]_vars

C2_Witness ==
    /\ lastCall.op = "sendUserMessage"
    /\ sends[Len(sends)].text \in BlankTexts \ {<<>>}
    /\ sends[Len(sends)].pc = "done"
    /\ Len(messages) = 2
    /\ isLoading = FALSE

(* C3 as claimed: within one sendUserMessage call the user message is in   *)
(* the list and isLoading has been set before the Proxy call or any        *)
(* database write is issued; the user message precedes every bot message   *)
(* of the call, and the explanation directly precedes the verse.           *)
OrderedInList ==
    \A s \in Calls :
        /\ \A i \in Positions(s, {"user"}) :
             \A j \in Positions(s, {"bot", "verse", "error"}) : i < j
        /\ \A i \in Positions(s, {"bot"}) :
             \A j \in Positions(s, {"verse"}) : j = i + 1

ProxyCalledAfterAppendAndLoading ==
    \A s \in Calls :
        sends[s].proxyCalls > 0 =>
            sends[s].callAfterAppend /\ sends[s].callAfterLoading

C3_Original ==
    /\ OrderedInList
    /\ ProxyCalledAfterAppendAndLoading
    /\ \A q \in convInserts \cup msgInserts : q.afterAppend /\ q.afterLoading

(* C3 amended: the user message is in the list before the Proxy call or    *)
(* any database write is issued; isLoading is set before the Proxy call    *)
(* and before every database write except the one addMessage issues for    *)
(* the user message itself, which goes out before isLoading is set; the    *)
(* order of the messages in the list is as claimed.                        *)
C3_Ordering ==
    /\ OrderedInList
    /\ ProxyCalledAfterAppendAndLoading
    /\ \A q \in convInserts \cup msgInserts :
         q.afterAppend /\ (q.afterLoading \/ q.part = "user")

C3_Witness ==
    \E s \in Calls :
        /\ sends[s].proxyCalls > 0
        /\ Positions(s, {"user"}) # {}
        /\ Positions(s, {"bot"}) # {}
        /\ Positions(s, {"verse"}) # {}
        /\ \E q \in convInserts \cup msgInserts : q.call = s

(* C4: when the Proxy call of a send fails (network error, 429, 500, or a  *)
(* body without a first interpretation) exactly one bot message without    *)
(* metadata is appended, behind the user message; the Proxy was called     *)
(* once for the send, and the call returns normally.                       *)
IsFallback(m, s) ==
    /\ m.sender = "bot"
    /\ m.data = "none"
    /\ m.text = FallbackText
    /\ m.call = s

C5_LoadingCleared ==
    /\ \A s \in 1..MaxOps :
         (s \in Calls /\ sends[s].pc = "awaitRename")
            ~> (s \in Calls /\ sends[s].pc = "done")
    /\ [][ \A s \in Calls :
            (sends[s].pc # "done" /\ sends'[s].pc = "done") => isLoading' = FALSE ]_vars

(* C6: while a Proxy round trip started by sendUserMessage is outstanding, *)
(* isLoading is true, whatever else starts or completes in the meantime.   *)
(* Stated for a signed-in user.                                            *)
C6_LoadingWhileOutstanding ==
    user = Me => \A s \in Calls : sends[s].pc = "awaitProxy" => isLoading

\* what a reader of the list sees of a message or a row
Shown(m) == [sender |-> m.sender, text |-> m.text]

ShownList(ms) == [i \in 1..Len(ms) |-> Shown(ms[i])]

IsPrefix(a, b) == Len(a) <= Len(b) /\ SubSeq(b, 1, Len(a)) = a

(* C7: after loadConversation(id) has completed successfully, and as long  *)
(* as no other store operation is invoked, the session list equals the     *)
(* persisted messages of id in creation order (same sender and text),      *)
(* conversationId is id and isLoading is false.  Stated for a signed-in     *)
(* user.                                                                   *)
C7_LoadShowsPersisted ==
    (user = Me /\ lastCall.op = "loadConversation" /\ lastCall.result = "ok")
    => /\ ShownList(messages) = ShownList(MessagesOf(lastCall.arg))
       /\ conversationId = lastCall.arg
       /\ ~isLoading

(* C8: whenever conversationId is set and no load is in progress, the      *)
(* persisted messages of that conversation, in creation order, are a       *)
(* prefix of the session list.  Stated here for the runs in which no       *)
(* database request has failed.                                            *)
C8_PersistedIsPrefix ==
    (conversationId # NoId /\ loads = {} /\ dbErrors = 0)
    => IsPrefix(ShownList(MessagesOf(conversationId)), ShownList(messages))

(* C9: clearMessages() leaves the list empty and conversationId null in    *)
(* the state it returns in, whatever is in flight when it is called.       *)
C9_ClearResets ==
    [][ (ops' = ops + 1 /\ lastCall'.op = "clearMessages")
        => (messages' = <<>> /\ conversationId' = NoId) ]_vars

C9_Witness ==
    /\ lastCall.op = "clearMessages"
    /\ messages = <<>>
    /\ conversationId = NoId
    /\ \E s \in Calls : sends[s].pc = "awaitProxy"
    /\ \E q \in convInserts : q.phase = "ok"

(* C10: once the summary of a conversation has been renamed away from the  *)
(* placeholder, no later step writes a different summary to it.            *)
C10_SummaryWrittenOnce ==
    [][ \A i \in 1..Len(dbConversations) : \A j \in 1..Len(dbConversations') :
            (/\ dbConversations[i].id = dbConversations'[j].id
             /\ dbConversations[i].summary # Placeholder)
            => dbConversations'[j].summary = dbConversations[i].summary ]_vars

(* C11: when the first sendUserMessage(text) of a new session of a signed-in *)
(* user has succeeded and returned, every conversation created for it      *)
(* carries the summary made from text: text itself up to TitleLimit         *)
(* characters, else its first TitleLimit characters and an ellipsis.       *)
C11_SummaryFromFirstText ==
    (/\ user = Me
     /\ ops = 1
     /\ Len(sends) = 1
     /\ sends[1].pc = "done"
     /\ sends[1].outcome \in {"verse", "plain"})
    => \A i \in 1..Len(dbConversations) :
            dbConversations[i].id > Len(InitConversations)
            => dbConversations[i].summary = NewTitle(sends[1].text)

\* the requests of caller c let through on the ticks of the last
\* TicksPerWindow ticks, which all lie inside one interval of windowMs
RECURSIVE SumSeq(_)
SumSeq(q) == IF q = <<>> THEN 0 ELSE Head(q) + SumSeq(Tail(q))

LetThroughLately(c) == SumSeq(accepted[c])

(* C12: when max requests of a caller have been counted in the limiter's   *)
(* current window, the next request of that caller in the window is        *)
(* answered 429 with an error body, and neither the handler nor the         *)
(* upstream model is invoked for it.  The window is the one the limiter     *)
(* counts in.                                                              *)
C12_EleventhRejected ==
    [][ \A c \in Callers :
          (hits[c] >= max /\ hits'[c] = hits[c] + 1)
          => /\ req'.caller = c
             /\ req'.phase = "done"
             /\ req'.status = 429
             /\ DOMAIN req'.body = {"error"}
             /\ req'.responses = 1
             /\ req'.handlerRuns = 0
             /\ req'.upstreamCalls = 0 ]_vars

C12_Witness ==
    /\ req.status = 429
    /\ req.handlerRuns = 0
    /\ hits[req.caller] = max + 1
    /\ LetThroughLately(req.caller) = max
    /\ \E c \in Callers : c # req.caller /\ hits[c] \in 1..max

(* C13: in every interval of windowMs, wherever it starts, at most max      *)
(* requests of one caller are let through.                                 *)
C13_RollingLimit == \A c \in Callers : LetThroughLately(c) <= max

(* C14: without an upstream credential the body of a 200 answer has a      *)
(* non-empty interpretations list whose elements each have a string view   *)
(* and a scriptures list of citations with reference, text and             *)
(* translation.                                                            *)
SuccessSchema(b) ==
    /\ "interpretations" \in DOMAIN b
    /\ Len(b.interpretations) > 0
    /\ \A i \in 1..Len(b.interpretations) :
         LET e == b.interpretations[i] IN
         /\ "view" \in DOMAIN e
         /\ e.view \in STRING
         /\ "scriptures" \in DOMAIN e
         /\ \A j \in 1..Len(e.scriptures) :
              {"reference", "text", "translation"} \subseteq DOMAIN e.scriptures[j]

C14_MockBodyFitsSchema ==
    (req.path = "mock" /\ req.status = 200) => SuccessSchema(req.body)

(* C15: on the live path, when the upstream call fails or its text is not  *)
(* valid JSON once the fence markers are stripped, the request is answered *)
(* once, with 500 and the fixed error body and nothing of the upstream     *)
(* text, after exactly one upstream call.                                  *)
C15_UpstreamFailureIs500 ==
    (req.path = "live" /\ req.phase = "done" /\ ~UpstreamUsable(req.upstream))
    => /\ req.status = 500
       /\ req.body = ErrorBody
       /\ req.responses = 1
       /\ req.upstreamCalls = 1

C15_Witness ==
    /\ req.path = "live"
    /\ req.phase = "done"
    /\ req.upstream.kind = "text"
    /\ req.upstream.text # <<>>
    /\ ~UpstreamUsable(req.upstream)
    /\ req.status = 500

(* C16: when a deleteConversation(id) whose delete succeeded completes, id *)
(* is no longer in the conversations list; if id is the active             *)
(* conversation the message list becomes empty and conversationId null,    *)
(* otherwise both are left as they are.                                    *)
C16_DeleteFrame ==
    [][ \A q \in deletes :
          (q.phase = "ok" /\ q \notin deletes')
          => /\ \A i \in 1..Len(conversations') : conversations'[i].id # q.conv
             /\ IF conversationId = q.conv
                THEN messages' = <<>> /\ conversationId' = NoId
                ELSE UNCHANGED <<messages, conversationId>> ]_vars

C16_Witness ==
    /\ lastCall = [op |-> "deleteConversation", arg |-> 2, result |-> "ok"]
    /\ conversationId = 1
    /\ Len(messages) = 2
    /\ \A i \in 1..Len(dbConversations) : dbConversations[i].id # 2

(* C17: a conversation insert is issued only by a step that appends a      *)
(* message while conversationId is null and a user is signed in; a row is  *)
(* added to the table only for such an insert; and while nothing has been  *)
(* sent no conversation has been created.                                  *)
C17_LazyConversation ==
    /\ [][ \A q \in convInserts' \ convInserts :
             q.phase = "sent"
             => /\ conversationId = NoId
                /\ user # NoUser
                /\ q.user_id = user
                /\ \E i \in (Len(messages) + 1)..Len(messages') :
                      messages'[i] = q.msg ]_vars
    /\ [][ Len(dbConversations') > Len(dbConversations)
           => \E q \in convInserts :
                /\ q.phase = "sent"
                /\ dbConversations'[Len(dbConversations')].user_id = q.user_id ]_vars
    /\ [](sends = <<>> => convInserts = {} /\ dbNextId = Len(InitConversations) + 1)

C17_Witness ==
    /\ lastCall.op = "clearMessages"
    /\ dbNextId = Len(InitConversations) + 2
    /\ Len(sends) = 1
    /\ conversationId = NoId

(* C18: a database write of a sendUserMessage that fails changes neither   *)
(* the message list nor isLoading, when the database refuses it and when   *)
(* the client learns of it; the failed write is not issued again and no    *)
(* fallback message is appended for it; a send that ran alone, whose Proxy *)
(* call succeeded and during which a write failed ends with the same list  *)
(* and flag as one whose writes all succeeded.                             *)
C18_WriteFailuresSwallowed ==
    /\ [][ dbErrors' > dbErrors => UNCHANGED <<messages, isLoading>> ]_vars
    /\ [][ \A q \in convInserts :
             (q.phase = "err" /\ q \notin convInserts')
             => /\ UNCHANGED <<messages, isLoading, msgInserts, renames>>
                /\ convInserts' = convInserts \ {q} ]_vars
    /\ [](\A s \in Calls :
            (RanAlone(s) /\ dbErrors > 0 /\ sends[s].outcome \in {"verse", "plain"})
            => /\ Positions(s, {"error"}) = {}
               /\ Len(messages) = sends[s].startLen
                                    + (IF sends[s].outcome = "verse" THEN 3 ELSE 2)
               /\ ~isLoading)

C18_Witness ==
    /\ user = Me
    /\ ops = 1
    /\ dbErrors = 1
    /\ Len(sends) = 1
    /\ RanAlone(1)
    /\ sends[1].outcome = "verse"
    /\ convInserts = {}
    /\ msgInserts = {}
    /\ Len(messages) = 3
    /\ ~isLoading

(* C19: a sendUserMessage call is never parked on a database write: it is  *)
(* either waiting for the Proxy, which it called in the step that appended *)
(* the user message, or it has returned.                                   *)
C19_NeverWaitsOnWrite ==
    \A s \in Calls :
        /\ sends[s].pc \in {"awaitProxy", "done"}
        /\ sends[s].pc = "awaitProxy" => sends[s].proxyCalls = 1

(* C21: every addMessage call puts its message at the end of the list in   *)
(* the step that makes the call: the list before the step is a prefix of   *)
(* the list after it, the user message of a send is its last element, the  *)
(* messages made from a Proxy response follow in the order of their        *)
(* addMessage calls, signed in or not; a step of the database, failing or  *)
(* not, and the return of a conversation insert leave the list alone.      *)
C21_AppendsLast ==
    /\ [][ (Len(sends') = Len(sends) + 1 /\ sends'[Len(sends')].proxyCalls = 1)
           => /\ Len(messages') = Len(messages) + 1
              /\ SubSeq(messages', 1, Len(messages)) = messages
              /\ messages'[Len(messages')].call = Len(sends')
              /\ messages'[Len(messages')].part = "user"
              /\ messages'[Len(messages')].text = Trim(sends'[Len(sends')].text) ]_vars
    /\ [][ \A s \in Calls :
             (sends[s].pc = "awaitProxy" /\ sends'[s].pc # "awaitProxy")
             => /\ IsPrefix(messages, messages')
                /\ Len(messages') > Len(messages)
                /\ \A k \in (Len(messages) + 1)..Len(messages') :
                     messages'[k].call = s
                /\ messages'[Len(messages) + 1].part \in {"bot", "error"}
                /\ Len(messages') > Len(messages) + 1
                     => messages'[Len(messages) + 2].part = "verse" ]_vars
    /\ [][ (dbMessages' # dbMessages \/ dbConversations' # dbConversations
               \/ dbErrors' # dbErrors \/ conversationId' \notin {conversationId, NoId})
           => (messages' = messages \/ loads' # loads) ]_vars

C21_Witness ==
    /\ user = NoUser
    /\ Len(sends) = 2
    /\ Len(messages) = 5
    /\ messages[4].part = "user"
    /\ messages[5].part = "error"

(* C22: the conversations list holds only rows owned by the signed-in      *)
(* user, and a conversation row leaves the table only if the signed-in     *)
(* user owns it.                                                           *)
C22_OwnerScoped ==
    /\ [](\A i \in 1..Len(conversations) :
            conversations[i] # Hole => conversations[i].user_id = user)
    /\ [][ \A i \in 1..Len(dbConversations) :
             (\A j \in 1..Len(dbConversations') :
                 dbConversations'[j].id # dbConversations[i].id)
             => dbConversations[i].user_id = user ]_vars

(* C23: a loadConversation(id) whose select failed ends, as long as no     *)
(* other operation is called, with an empty list, conversationId = id and  *)
(* isLoading false; the step that handles a failed select of               *)
(* fetchConversations leaves the conversations list alone and clears       *)
(* isLoading; the step that handles a failed delete changes nothing of     *)
(* the list, the messages and conversationId.                              *)
C23_ReadErrorsLeaveState ==
    /\ []((lastCall.op = "loadConversation" /\ lastCall.result = "err")
            => (messages = <<>> /\ conversationId = lastCall.arg /\ ~isLoading))
    /\ [][ \A q \in fetches :
             (q.phase = "err" /\ q \notin fetches')
             => (conversations' = conversations /\ ~isLoading') ]_vars
    /\ [][ \A q \in deletes :
             (q.phase = "err" /\ q \notin deletes')
             => UNCHANGED <<conversations, messages, conversationId>> ]_vars

C25_OneConversationPerSend ==
    (user # NoUser /\ ops = 1 /\ Len(sends) = 1)
    => /\ Len(dbConversations) <= Len(InitConversations) + 1
       /\ \A i, j \in 1..Len(dbMessages) :
            (dbMessages[i].call = 1 /\ dbMessages[j].call = 1)
            => dbMessages[i].conversation_id = dbMessages[j].conversation_id

Rank(part) ==
    CASE part = "user" -> 1
      [] part = "bot" -> 2
      [] part = "error" -> 2
      [] part = "verse" -> 3
      [] OTHER -> 0

(* C27: when no write has failed, the rows of one send that sit in a       *)
(* conversation that existed before the send, its user row among them,     *)
(* are stored in the order user, explanation, verse.                       *)
C27_PersistedInLiveOrder ==
    dbErrors = 0
    => \A i, j \in 1..Len(dbMessages) :
         ( /\ i < j
           /\ dbMessages[i].call = dbMessages[j].call
           /\ dbMessages[i].call \in Calls
           /\ dbMessages[i].conversation_id = dbMessages[j].conversation_id
           /\ dbMessages[i].conversation_id <= Len(InitConversations)
           /\ \E k \in 1..Len(dbMessages) :
                /\ dbMessages[k].call = dbMessages[i].call
                /\ dbMessages[k].part = "user"
                /\ dbMessages[k].conversation_id = dbMessages[i].conversation_id )
         => Rank(dbMessages[i].part) < Rank(dbMessages[j].part)

(* C29: after clearMessages conversationId stays null, and after           *)
(* loadConversation(id) it stays id, until the next call to the store.     *)
C29_StaleInsertIgnored ==
    /\ lastCall.op = "clearMessages" => conversationId = NoId
    /\ lastCall.op = "loadConversation" => conversationId = lastCall.arg

(* C30: when two calls were made, the second a loadConversation(B), no     *)
(* send and no delete among them, and every select has returned without    *)
(* error, the list shows the persisted messages of B and conversationId    *)
(* is B.                                                                   *)
C30_LastLoadWins ==
    ( /\ ops = 2
      /\ sends = <<>>
      /\ lastCall.op = "loadConversation"
      /\ lastCall.result = "ok"
      /\ loads = {} /\ fetches = {} /\ deletes = {}
      /\ dbErrors = 0
      /\ dbConversations = InitConversations )
    => /\ conversationId = lastCall.arg
       /\ ShownList(messages) = ShownList(MessagesOf(lastCall.arg))

(* C26: the messages of the session have pairwise distinct ids.            *)
C26_DistinctIds ==
    \A i, j \in 1..Len(messages) :
        i # j => messages[i].id # messages[j].id

(* C28: the step that handles the Proxy's answer to a send appends either  *)
(* the explanation, with the verse when there is one, or the fallback      *)
(* message alone.                                                          *)
C28_SuccessOrFallback ==
    [][ \A s \in Calls :
          (sends[s].pc = "awaitProxy" /\ sends'[s].pc # "awaitProxy")
          => LET added == [k \in 1..(Len(messages') - Len(messages)) |->
                              messages'[Len(messages) + k].part]
             IN  added \in {<<"bot">>, <<"bot", "verse">>, <<"error">>} ]_vars

====
